---- MODULE Spec2Model ----
(***************************************************************************)
(* Model of vaccine_status/tweeter.py: VacScraper (fetch, the script-tag   *)
(* scan and the ratio), Tweeter (the progress-bar text and the post) and   *)
(* the driver main().                                                      *)
(*                                                                         *)
(* Text is a sequence of one-character strings.  A Python float that holds *)
(* a value rounded to 4 decimals is the integer number of ten-thousandths  *)
(* (ratio 0.1164 is 1164).  An optional value (None or a value) is a       *)
(* record [some, val].                                                     *)
(***************************************************************************)
EXTENDS Integers, Sequences, FiniteSets, TLC

\* Bounds of the model.
MaxScripts == 3
MaxDoseIndex == 140

\* Program constants.
TURKEY_POPULATION == 83614362
LENGTH_PROGRESS == 20
PAD_WIDTH == 20
FULL_PROGRESS_CHAR == "#"
EMPTY_PROGRESS_CHAR == "_"

LAST_UPDATED_LITERAL ==
    <<"v", "a", "r", " ", "a", "s", "i", "s", "a", "y", "i", "s", "i", "g",
      "u", "n", "c", "e", "l", "l", "e", "m", "e", "s", "a", "a", "t", "i",
      " ", "=", " ", "'">>

SECOND_DOSE_LITERAL ==
    <<"v", "a", "r", " ", "a", "s", "i", "y", "a", "p", "i", "l", "a", "n",
      "k", "i", "s", "i", "s", "a", "y", "i", "s", "i", "2", "D", "o", "z",
      " ", "=", " ">>

-----------------------------------------------------------------------------
\* Optional values.

None == [some |-> FALSE, val |-> <<>>]

Some(v) == [some |-> TRUE, val |-> v]

Unbound == [some |-> FALSE, val |-> 0]

\* Python truthiness of an optional string: None and "" are false.
Truthy(o) == o.some /\ o.val # <<>>

SetMax(S) == CHOOSE x \in S : \A y \in S : y <= x

SetMin(S) == CHOOSE x \in S : \A y \in S : x <= y

-----------------------------------------------------------------------------
\* The two regular expressions, matched with re.match (anchored at 0).

DigitChars == <<"0", "1", "2", "3", "4", "5", "6", "7", "8", "9">>

IsDigit(c) == \E i \in 1..10 : DigitChars[i] = c

StartsWith(s, p) == Len(s) >= Len(p) /\ SubSeq(s, 1, Len(p)) = p

Tail_(s, n) == SubSeq(s, n + 1, Len(s))

\* The part of s that `.` can run over: up to the first line break.
FirstLine(s) ==
    LET nl == {i \in 1..Len(s) : s[i] = "\n"}
    IN  IF nl = {} THEN s ELSE SubSeq(s, 1, SetMin(nl) - 1)

\* re.match(r"var asisayisiguncellemesaati \= \'(.+)\'", s): group 1 or None.
\* `.+` is greedy: it runs to the last quote of the line, and takes >= 1 char.
last_updated_match(s) ==
    IF ~StartsWith(s, LAST_UPDATED_LITERAL) THEN None
    ELSE LET rest == FirstLine(Tail_(s, Len(LAST_UPDATED_LITERAL)))
             quotes == {j \in 2..Len(rest) : rest[j] = "'"}
         IN  IF quotes = {} THEN None
             ELSE Some(SubSeq(rest, 1, SetMax(quotes) - 1))

\* SECOND_DOSE_REGEX tried at offset p of s: the literal, then the longest
\* run of digits, of which there must be one.
second_dose_at(s, p) ==
    IF ~StartsWith(Tail_(s, p), SECOND_DOSE_LITERAL) THEN None
    ELSE LET rest == Tail_(s, p + Len(SECOND_DOSE_LITERAL))
             n == SetMax({j \in 0..Len(rest) :
                            \A i \in 1..j : IsDigit(rest[i])})
         IN  IF n = 0 THEN None ELSE Some(SubSeq(rest, 1, n))

\* re.search in place of re.match: the first offset where the pattern matches.
second_dose_search(s) ==
    LET hits == {p \in 0..Len(s) : second_dose_at(s, p).some}
    IN  IF hits = {} THEN None ELSE second_dose_at(s, SetMin(hits))

\* re.match(r"var asiyapilankisisayisi2Doz \= (\d+)", s): group 1 or None.
second_dose_match(s) == second_dose_at(s, 0)

-----------------------------------------------------------------------------
\* int(second_dose) and round(int(second_dose) / TURKEY_POPULATION, 4).

DigitValue(c) == (CHOOSE i \in 1..10 : DigitChars[i] = c) - 1

RECURSIVE int(_)
int(ds) ==
    IF ds = <<>> THEN 0
    ELSE 10 * int(SubSeq(ds, 1, Len(ds) - 1)) + DigitValue(ds[Len(ds)])

\* Long division: [q, r] with q = floor(r0 * 10^n / p) and r the remainder.
RECURSIVE LongDiv(_, _, _)
LongDiv(r0, p, n) ==
    IF n = 0 THEN [q |-> 0, r |-> r0]
    ELSE LET prev == LongDiv(r0, p, n - 1)
         IN  [q |-> 10 * prev.q + (10 * prev.r) \div p,
              r |-> (10 * prev.r) % p]

\* The quotient d / TURKEY_POPULATION rounded to 4 decimals, in
\* ten-thousandths.  The quotient is never a decimal tie (20000 * d is never
\* an odd multiple of the population), so the double rounds as the exact
\* quotient does.
round_4_trunc(d) ==
    LET frac == LongDiv(d % TURKEY_POPULATION, TURKEY_POPULATION, 4)
    IN  (d \div TURKEY_POPULATION) * 10000 + frac.q

second_dose_ratio(d) ==
    LET frac == LongDiv(d % TURKEY_POPULATION, TURKEY_POPULATION, 4)
        down == (d \div TURKEY_POPULATION) * 10000 + frac.q
    IN  IF 2 * frac.r > TURKEY_POPULATION THEN down + 1
        ELSE IF 2 * frac.r < TURKEY_POPULATION THEN down
        ELSE IF down % 2 = 0 THEN down ELSE down + 1

-----------------------------------------------------------------------------
\* Tweeter.create_percentage_tweet.

RECURSIVE str(_)
str(n) ==
    IF n < 10 THEN <<DigitChars[n + 1]>>
    ELSE str(n \div 10) \o <<DigitChars[(n % 10) + 1]>>

Repeat(c, n) == [i \in 1..n |-> c]

\* s.ljust(width, fill): padded on the right, never cut.
LJust(s, width, fill) ==
    IF Len(s) >= width THEN s ELSE s \o Repeat(fill, width - Len(s))

Replace(s, a, b) == [i \in 1..Len(s) |-> IF s[i] = a THEN b ELSE s[i]]

StripZeros(s) ==
    LET keep == {j \in 0..Len(s) : \A i \in (j + 1)..Len(s) : s[i] = "0"}
    IN  SubSeq(s, 1, SetMin(keep))

Pow10(n) == IF n = 0 THEN 1 ELSE IF n = 1 THEN 10 ELSE 100

\* n / 10^dec written with dec decimals.
FixedDigits(n, dec) ==
    [int |-> str(n \div Pow10(dec)),
     frac |-> LET f == str(n % Pow10(dec))
              IN  IF dec = 0 THEN <<>>
                  ELSE Repeat("0", dec - Len(f)) \o f]

\* The 'g' presentation removes the trailing zeros of the fraction, and the
\* point when nothing follows it.
Fixed(n, dec) ==
    LET d == FixedDigits(n, dec)
        f == StripZeros(d.frac)
    IN  d.int \o (IF f = <<>> THEN <<>> ELSE <<".">> \o f)

FixedKeepZeros(n, dec) ==
    LET d == FixedDigits(n, dec)
    IN  d.int \o (IF d.frac = <<>> THEN <<>> ELSE <<".">> \o d.frac)

RoundDiv(n, m) == (n + m \div 2) \div m

\* ratio * 100.0 is k / 100.  With 4 significant digits a value of 100 or
\* more is rounded, and at an exact decimal tie (100.05, 1000.5) the binary
\* error of the double product decides: the specifications draw no such k.
IsTie(k) ==
    \/ k >= 10000 /\ k < 100000 /\ k % 10 = 5
    \/ k >= 100000 /\ k % 100 = 50

format_4n_keep_zeros(k) ==
    IF k < 1000 THEN FixedKeepZeros(k * 10, 3)
    ELSE IF k < 10000 THEN FixedKeepZeros(k, 2)
    ELSE IF k < 99995 THEN FixedKeepZeros(RoundDiv(k, 10), 1)
    ELSE FixedKeepZeros(RoundDiv(k, 100), 0)

\* f"{ratio * 100.0:.4n}" for 0 <= k < 999950 (above, the exponent form).
format_4n(k) ==
    IF k < 10000 THEN Fixed(k, 2)
    ELSE IF k < 99995 THEN Fixed(RoundDiv(k, 10), 1)
    ELSE Fixed(RoundDiv(k, 100), 0)

full_amount_clamped(k) ==
    IF (k * LENGTH_PROGRESS) \div 10000 > LENGTH_PROGRESS THEN LENGTH_PROGRESS
    ELSE (k * LENGTH_PROGRESS) \div 10000

\* int(ratio * LENGTH_PROGRESS // 1)
full_amount(k) == (k * LENGTH_PROGRESS) \div 10000

create_percentage_tweet(k) ==
    LET percentage_value == Replace(format_4n(k), ".", ",")
    IN  LJust(Repeat(FULL_PROGRESS_CHAR, full_amount(k)), PAD_WIDTH,
              EMPTY_PROGRESS_CHAR)
        \o <<" ", "%">> \o percentage_value

-----------------------------------------------------------------------------
\* The body of the scan loop (lines 64-67) on one script text: the
\* last-updated pattern first, the second-dose pattern only when it fails.
\* acc is [last_updated, second_dose].

scan_tag_stop_at_dose(acc, string) ==
    IF acc.second_dose.some THEN acc
    ELSE IF last_updated_match(string).some
    THEN [acc EXCEPT !.last_updated = last_updated_match(string)]
    ELSE IF second_dose_match(string).some
    THEN [acc EXCEPT !.second_dose = second_dose_match(string)]
    ELSE acc

scan_tag(acc, string) ==
    IF last_updated_match(string).some
    THEN [acc EXCEPT !.last_updated = last_updated_match(string)]
    ELSE IF second_dose_match(string).some
    THEN [acc EXCEPT !.second_dose = second_dose_match(string)]
    ELSE acc

\* Lines 68-72 on the values the loop leaves: the error raised ("None" when
\* there is none) and the pair returned.
status_of(acc) ==
    IF ~Truthy(acc.last_updated) \/ ~Truthy(acc.second_dose)
    THEN [raised |-> "AssertionError", ratio |-> Unbound, last_updated |-> None]
    ELSE [raised |-> "None",
          ratio |-> Some(second_dose_ratio(int(acc.second_dose.val))),
          last_updated |-> acc.last_updated]

\* The loop of get_vaccine_status from tag i on.  script_el.string is None
\* for a tag without a single text child, and re.match(pattern, None) raises
\* TypeError.
RECURSIVE scan_from(_, _, _)
scan_from(acc, els, i) ==
    IF i > Len(els) THEN status_of(acc)
    ELSE IF ~els[i].some
    THEN [raised |-> "TypeError", ratio |-> Unbound, last_updated |-> None]
    ELSE scan_from(scan_tag(acc, els[i].val), els, i + 1)

\* get_vaccine_status on the script tags of the container.
get_vaccine_status(els) ==
    scan_from([last_updated |-> None, second_dose |-> None], els, 1)

-----------------------------------------------------------------------------
\* The environment: what the status page and the posting API can answer.

LastUpdatedStmt(v) == LAST_UPDATED_LITERAL \o v \o <<"'", ";">>

SecondDoseStmt(ds) == SECOND_DOSE_LITERAL \o ds \o <<";">>

Timestamps == {<<"1">>, <<"2", "'", "3">>}

DriverDoses == {<<"9", "7", "3", "0", "4", "1", "0">>, <<"0">>}

\* The .string of a script tag: the two statements, a last-updated statement
\* after a leading blank, a last-updated statement whose value holds the text
\* of a second-dose statement, and None.
ScriptStrings ==
    {Some(LastUpdatedStmt(t)) : t \in Timestamps}
    \cup {Some(SecondDoseStmt(d)) : d \in DriverDoses}
    \cup {Some(<<" ">> \o LastUpdatedStmt(<<"1">>)),
          Some(LastUpdatedStmt(SecondDoseStmt(<<"5">>))),
          None}

NoSoup == [has_svg |-> FALSE, scripts |-> <<>>]

Pages(n) ==
    {NoSoup} \cup
    {[has_svg |-> TRUE, scripts |-> s] :
        s \in UNION {[1..m -> ScriptStrings] : m \in 0..n}}

ErrorStatusCodes == {404, 500}

PostOutcomes == {"ok", "TwitterError", "ConnectionError"}

DoseCounts ==
    {i * 1234567 : i \in 0..MaxDoseIndex}
    \cup {1, 4180, 4181, 9730410, TURKEY_POPULATION \div 2,
          TURKEY_POPULATION - 1, TURKEY_POPULATION, TURKEY_POPULATION + 1,
          TURKEY_POPULATION + 4180, TURKEY_POPULATION + 4181,
          2 * TURKEY_POPULATION, 11 * TURKEY_POPULATION + 12345}

-----------------------------------------------------------------------------
VARIABLES
    pc,            \* where main() is: fetch, select, scan, format, post, exit
    status_code,   \* response.status_code, Unbound before the response
    soup,          \* VacScraper.soup
    script_els,    \* get_vaccine_status: the script tags of the container
    idx,           \* the position of the loop in script_els
    last_updated,  \* get_vaccine_status: last_updated
    second_dose,   \* get_vaccine_status: second_dose
    ratio,         \* main: ratio
    perc_tweet,    \* main: perc_tweet
    submitted,     \* the text handed to twitter_api.PostUpdate, if any
    raised,        \* the exception raised in this run, "None" when none
    log,           \* what logger.exception has written
    exit_status,   \* running, zero, nonzero
    previous       \* the preceding run: what it scraped and submitted

vars == <<pc, status_code, soup, script_els, idx, last_updated, second_dose,
          ratio, perc_tweet, submitted, raised, log, exit_status, previous>>

NoPrevious ==
    [ran |-> FALSE, last_updated |-> None, second_dose |-> None,
     submitted |-> None]

\* The process as main() is entered.
Fresh ==
    /\ pc = "fetch"
    /\ status_code = Unbound
    /\ soup = NoSoup
    /\ script_els = <<>>
    /\ idx = 0
    /\ last_updated = None
    /\ second_dose = None
    /\ ratio = Unbound
    /\ perc_tweet = None
    /\ submitted = None
    /\ raised = "None"
    /\ log = <<>>
    /\ exit_status = "running"

Init == Fresh /\ previous = NoPrevious

\* An exception of kind `kind` leaves the first try block of main: the
\* handler logs and re-raises an HTTPError or an AssertionError, anything
\* else passes it untouched; either way main ends with the exception.
ScrapeRaises(kind) ==
    /\ raised' = kind
    /\ log' = IF kind \in {"HTTPError", "AssertionError"}
              THEN Append(log, "Scraping failed.") ELSE log
    /\ exit_status' = "nonzero"
    /\ pc' = "exit"

\* VacScraper.fetch: requests.get, raise_for_status, BeautifulSoup.
Fetch ==
    /\ pc = "fetch"
    /\ \E answer \in {"ConnectionError", "error_status", "page"} :
       \E code \in ErrorStatusCodes, page \in Pages(MaxScripts) :
          IF answer = "ConnectionError"
          THEN /\ code = 404 /\ page = NoSoup
               /\ ScrapeRaises("ConnectionError")
               /\ UNCHANGED <<status_code, soup>>
          ELSE IF answer = "error_status"
          THEN /\ page = NoSoup
               /\ status_code' = Some(code)
               /\ ScrapeRaises("HTTPError")
               /\ UNCHANGED soup
          ELSE /\ code = 404
               /\ status_code' = Some(200)
               /\ soup' = page
               /\ pc' = "select"
               /\ UNCHANGED <<raised, log, exit_status>>
    /\ UNCHANGED <<script_els, idx, last_updated, second_dose, ratio,
                   perc_tweet, submitted, previous>>

\* Lines 55-62: select_one gives None when the container is missing, and
\* None.find_all raises AttributeError.
SelectContainer ==
    /\ pc = "select"
    /\ IF ~soup.has_svg
       THEN /\ ScrapeRaises("AttributeError")
            /\ UNCHANGED <<script_els, idx, last_updated, second_dose>>
       ELSE /\ script_els' = soup.scripts
            /\ idx' = 1
            /\ last_updated' = None
            /\ second_dose' = None
            /\ pc' = "scan"
            /\ UNCHANGED <<raised, log, exit_status>>
    /\ UNCHANGED <<status_code, soup, ratio, perc_tweet, submitted, previous>>

\* One turn of the loop of lines 63-67.
ScanTag ==
    /\ pc = "scan"
    /\ idx <= Len(script_els)
    /\ IF ~script_els[idx].some
       THEN /\ ScrapeRaises("TypeError")
            /\ UNCHANGED <<idx, last_updated, second_dose>>
       ELSE LET acc == scan_tag([last_updated |-> last_updated,
                                 second_dose |-> second_dose],
                                script_els[idx].val)
            IN  /\ last_updated' = acc.last_updated
                /\ second_dose' = acc.second_dose
                /\ idx' = idx + 1
                /\ UNCHANGED <<pc, raised, log, exit_status>>
    /\ UNCHANGED <<status_code, soup, script_els, ratio, perc_tweet,
                   submitted, previous>>

\* The assertions absent, as under python -O.
GetStatusUnchecked ==
    /\ pc = "scan"
    /\ idx > Len(script_els)
    /\ IF ~second_dose.some
       THEN /\ ScrapeRaises("TypeError")
            /\ UNCHANGED ratio
       ELSE /\ ratio' = Some(second_dose_ratio(int(second_dose.val)))
            /\ pc' = "format"
            /\ UNCHANGED <<raised, log, exit_status>>
    /\ UNCHANGED <<status_code, soup, script_els, idx, last_updated,
                   second_dose, perc_tweet, submitted, previous>>

\* Lines 68-72 and the assignment of line 135.
GetStatus ==
    /\ pc = "scan"
    /\ idx > Len(script_els)
    /\ LET st == status_of([last_updated |-> last_updated,
                            second_dose |-> second_dose])
       IN  IF st.raised # "None"
           THEN /\ ScrapeRaises(st.raised)
                /\ UNCHANGED ratio
           ELSE /\ ratio' = st.ratio
                /\ pc' = "format"
                /\ UNCHANGED <<raised, log, exit_status>>
    /\ UNCHANGED <<status_code, soup, script_els, idx, last_updated,
                   second_dose, perc_tweet, submitted, previous>>

\* The tweet with the timestamp appended.
CreateTweetWithTimestamp ==
    /\ pc = "format"
    /\ perc_tweet' = Some(create_percentage_tweet(ratio.val)
                          \o <<" ">> \o last_updated.val)
    /\ pc' = "post"
    /\ UNCHANGED <<status_code, soup, script_els, idx, last_updated,
                   second_dose, ratio, submitted, raised, log, exit_status,
                   previous>>

\* Line 140.
CreateTweet ==
    /\ pc = "format"
    /\ perc_tweet' = Some(create_percentage_tweet(ratio.val))
    /\ pc' = "post"
    /\ UNCHANGED <<status_code, soup, script_els, idx, last_updated,
                   second_dose, ratio, submitted, raised, log, exit_status,
                   previous>>

\* The post without the try block around it.
PostTweetUncaught ==
    /\ pc = "post"
    /\ submitted' = perc_tweet
    /\ \E outcome \in PostOutcomes :
          /\ raised' = IF outcome = "ok" THEN "None" ELSE outcome
          /\ exit_status' = IF outcome = "ok" THEN "zero" ELSE "nonzero"
          /\ UNCHANGED log
    /\ pc' = "exit"
    /\ UNCHANGED <<status_code, soup, script_els, idx, last_updated,
                   second_dose, ratio, perc_tweet, previous>>

\* Lines 141-143: post_tweet hands the text to PostUpdate; whatever it
\* raises is logged by the bare except, and main returns.
PostTweet ==
    /\ pc = "post"
    /\ submitted' = perc_tweet
    /\ \E outcome \in PostOutcomes :
          /\ raised' = IF outcome = "ok" THEN "None" ELSE outcome
          /\ log' = IF outcome = "ok" THEN log
                    ELSE Append(log, "Tweeting failed.")
    /\ exit_status' = "zero"
    /\ pc' = "exit"
    /\ UNCHANGED <<status_code, soup, script_els, idx, last_updated,
                   second_dose, ratio, perc_tweet, previous>>

\* The process has ended; the scheduler starts the next run.
NextRun ==
    /\ pc = "exit"
    /\ previous' = [ran |-> TRUE, last_updated |-> last_updated,
                    second_dose |-> second_dose, submitted |-> submitted]
    /\ pc' = "fetch"
    /\ status_code' = Unbound
    /\ soup' = NoSoup
    /\ script_els' = <<>>
    /\ idx' = 0
    /\ last_updated' = None
    /\ second_dose' = None
    /\ ratio' = Unbound
    /\ perc_tweet' = None
    /\ submitted' = None
    /\ raised' = "None"
    /\ log' = <<>>
    /\ exit_status' = "running"

Next ==
    \/ Fetch
    \/ SelectContainer
    \/ ScanTag
    \/ GetStatus
    \/ CreateTweet
    \/ PostTweet

Spec == Init /\ [][Next]_vars

\* Successive runs of the driver, one per scheduling tick.
NextOfRuns ==
    \/ Fetch
    \/ SelectContainer
    \/ ScanTag
    \/ GetStatus
    \/ CreateTweet
    \/ PostTweet
    \/ NextRun

SpecRuns == Init /\ [][NextOfRuns]_vars

\* One run on a fetched page that holds the two statements, for every
\* second-dose count of DoseCounts.
InitStatus ==
    /\ \E d \in DoseCounts :
          /\ ~IsTie(second_dose_ratio(d))
          /\ soup = [has_svg |-> TRUE,
                     scripts |-> <<Some(LastUpdatedStmt(<<"1">>)),
                                   Some(SecondDoseStmt(str(d)))>>]
    /\ pc = "select"
    /\ status_code = Some(200)
    /\ script_els = <<>>
    /\ idx = 0
    /\ last_updated = None
    /\ second_dose = None
    /\ ratio = Unbound
    /\ perc_tweet = None
    /\ submitted = None
    /\ raised = "None"
    /\ log = <<>>
    /\ exit_status = "running"
    /\ previous = NoPrevious

NextStatus ==
    \/ SelectContainer
    \/ ScanTag
    \/ GetStatus
    \/ CreateTweet

SpecStatus == InitStatus /\ [][NextStatus]_vars

-----------------------------------------------------------------------------
\* What the fetched page holds.

Strings(els) == {els[i].val : i \in {j \in 1..Len(els) : els[j].some}}

LastUpdatedValues(els) ==
    {last_updated_match(t).val :
        t \in {u \in Strings(els) : last_updated_match(u).some}}

SecondDoseValues(els) ==
    {second_dose_match(t).val :
        t \in {u \in Strings(els) : second_dose_match(u).some}}

PageHasLastUpdated == soup.has_svg /\ LastUpdatedValues(soup.scripts) # {}

PageHasSecondDose == soup.has_svg /\ SecondDoseValues(soup.scripts) # {}

FetchSucceeded == status_code = Some(200)

-----------------------------------------------------------------------------
\* C1: a post is attempted only in a run whose fetch succeeded and whose scan
\* of all the script tags has found both the last-updated value and the
\* second-dose count; a run whose fetch failed, or whose page lacks either
\* statement, ends with an error and has attempted no post.
C1_PostOnlyAfterBothFound ==
    /\ submitted.some =>
          /\ FetchSucceeded
          /\ PageHasLastUpdated /\ PageHasSecondDose
          /\ Truthy(last_updated) /\ Truthy(second_dose)
          /\ idx > Len(script_els)
    /\ (pc = "exit" /\ (~FetchSucceeded \/ ~PageHasLastUpdated
                        \/ ~PageHasSecondDose)) =>
          ~submitted.some /\ exit_status = "nonzero"

C1_Witness ==
    pc = "exit" /\ submitted.some /\ Truthy(last_updated)
    /\ Truthy(second_dose)

\* C2: once the driver has reached the post, whatever post_tweet raises is
\* logged as a tweeting failure and main returns: the run ends with exit
\* status zero.
C2_PostFailureSwallowed ==
    (pc = "exit" /\ submitted.some) =>
        /\ exit_status = "zero"
        /\ raised # "None" => log = <<"Tweeting failed.">>

C2_Witness ==
    pc = "exit" /\ submitted.some /\ raised = "TwitterError"
    /\ exit_status = "zero"

\* C3: every failure of the fetch/parse stage (an error status, a network
\* failure, a missing container, a value not found) is logged by the driver
\* as a scraping failure and ends the run with a non-zero exit.
C3_EveryScrapeFailureLogged ==
    (pc = "exit" /\ raised # "None" /\ ~submitted.some
     /\ (~FetchSucceeded \/ ~soup.has_svg \/ raised = "AssertionError")) =>
        /\ log = <<"Scraping failed.">>
        /\ exit_status = "nonzero"

\* C4: an error status raises the fetch error kind (HTTPError); a missing
\* container and a missing statement both raise the parse error kind
\* (AssertionError), the kind the driver treats as a scraping failure; none
\* of them leaves a ratio.
C4_FailureKinds ==
    (pc = "exit" /\ ~submitted.some) =>
        /\ (status_code.some /\ ~FetchSucceeded) =>
              raised = "HTTPError" /\ ~ratio.some
        /\ (FetchSucceeded /\ ~soup.has_svg) =>
              raised = "AssertionError" /\ ~ratio.some
        /\ (FetchSucceeded /\ soup.has_svg
            /\ \A i \in 1..Len(soup.scripts) : soup.scripts[i].some
            /\ (~PageHasLastUpdated \/ ~PageHasSecondDose)) =>
              raised = "AssertionError" /\ ~ratio.some

\* C5: on a container that holds the last-updated statement and the
\* second-dose statement (one value each), get_vaccine_status returns the
\* pair the run has computed for every ordering of the script tags.
Perms(n) ==
    {p \in [1..n -> 1..n] : \A i, j \in 1..n : i # j => p[i] # p[j]}

Reorder(els, p) == [i \in 1..Len(els) |-> els[p[i]]]

HoldsTheTwoStatements(els) ==
    /\ Cardinality(LastUpdatedValues(els)) = 1
    /\ Cardinality(SecondDoseValues(els)) = 1

C5_OrderIndependent ==
    (pc \in {"scan", "format", "post", "exit"}
     /\ HoldsTheTwoStatements(script_els)) =>
        /\ \A p \in Perms(Len(script_els)) :
              get_vaccine_status(Reorder(script_els, p))
                = get_vaccine_status(script_els)
        /\ ratio.some =>
              \A p \in Perms(Len(script_els)) :
                 get_vaccine_status(Reorder(script_els, p))
                   = [raised |-> "None", ratio |-> ratio,
                      last_updated |-> last_updated]

C5_Witness ==
    /\ ratio.some
    /\ HoldsTheTwoStatements(script_els)
    /\ Len(script_els) >= 2
    /\ second_dose_match(script_els[1].val).some

\* C9: no script text matches both patterns from position 0, and the values
\* the loop holds after any number of tags are those of a scan that tests
\* both patterns against every tag.
scan_tag_independent(acc, string) ==
    LET a == IF last_updated_match(string).some
             THEN [acc EXCEPT !.last_updated = last_updated_match(string)]
             ELSE acc
    IN  IF second_dose_match(string).some
        THEN [a EXCEPT !.second_dose = second_dose_match(string)]
        ELSE a

RECURSIVE scan_independent(_, _, _)
scan_independent(acc, els, i) ==
    IF i > Len(els) THEN acc
    ELSE scan_independent(scan_tag_independent(acc, els[i].val), els, i + 1)

C9_ElifEquivalentToIndependent ==
    idx >= 1 =>
        /\ \A t \in Strings(script_els) :
              ~(last_updated_match(t).some /\ second_dose_match(t).some)
        /\ scan_independent([last_updated |-> None, second_dose |-> None],
                            SubSeq(script_els, 1, idx - 1), 1)
             = [last_updated |-> last_updated, second_dose |-> second_dose]

C9_Witness ==
    /\ idx > Len(script_els)
    /\ Truthy(last_updated) /\ Truthy(second_dose)
    /\ \E t \in Strings(script_els) :
          last_updated_match(t).some /\ second_dose_search(t).some

\* C10: two runs whose pages yield the same second-dose count submit the
\* same text, whatever their last-updated strings; and a run whose page
\* lacks the last-updated statement submits nothing.
C10_TextDependsOnDoseOnly ==
    /\ (previous.submitted.some /\ submitted.some
        /\ int(previous.second_dose.val) = int(second_dose.val)) =>
          submitted = previous.submitted
    /\ (pc = "exit" /\ ~PageHasLastUpdated) => ~submitted.some

C10_Witness ==
    /\ previous.submitted.some /\ submitted.some
    /\ int(previous.second_dose.val) = int(second_dose.val)
    /\ previous.last_updated # last_updated

-----------------------------------------------------------------------------
\* The parts of a tweet.

FirstIndexOf(s, c) == SetMin({i \in 1..Len(s) : s[i] = c})

BarOf(tweet) == SubSeq(tweet, 1, FirstIndexOf(tweet, " ") - 1)

PercentageOf(tweet) == Tail_(tweet, FirstIndexOf(tweet, "%"))

EmptyBar(n) == Repeat(EMPTY_PROGRESS_CHAR, n)

FullBar(n) == Repeat(FULL_PROGRESS_CHAR, n)

\* The value a percentage text stands for, in hundredths.
Hundredths(pct) ==
    LET commas == {i \in 1..Len(pct) : pct[i] = ","}
        c == IF commas = {} THEN Len(pct) + 1 ELSE SetMin(commas)
        frac == Tail_(pct, c)
    IN  100 * int(SubSeq(pct, 1, c - 1))
        + (IF Len(frac) = 0 THEN 0
           ELSE IF Len(frac) = 1 THEN 10 * int(frac) ELSE int(frac))

\* C6 as stated: ratio 0.0 gives 20 empty glyphs and "%0,000", ratio 0.5
\* gives 10 filled then 10 empty glyphs and "%50,00", ratio 1.0 gives 20
\* filled glyphs and "%100,0".
C6_AsStated ==
    perc_tweet.some =>
        /\ ratio.val = 0 =>
              perc_tweet.val
                = EmptyBar(20) \o <<" ", "%", "0", ",", "0", "0", "0">>
        /\ ratio.val = 5000 =>
              perc_tweet.val
                = FullBar(10) \o EmptyBar(10)
                  \o <<" ", "%", "5", "0", ",", "0", "0">>
        /\ ratio.val = 10000 =>
              perc_tweet.val
                = FullBar(20) \o <<" ", "%", "1", "0", "0", ",", "0">>

\* C6 amended: the text ends with '%' and ratio*100 rounded to at most 4
\* significant digits, the trailing zeros of the fraction and a bare
\* separator removed, with ',' as separator: ratio 0.0 gives 20 empty glyphs
\* and "%0", ratio 0.5 gives 10 filled then 10 empty glyphs and "%50", ratio
\* 1.0 gives 20 filled glyphs and "%100".
C6_TrailingZerosRemoved ==
    perc_tweet.some =>
        LET pct == PercentageOf(perc_tweet.val)
            k == ratio.val
            digits == {i \in 1..Len(pct) : pct[i] # ","}
        IN  /\ k = 0 => perc_tweet.val = EmptyBar(20) \o <<" ", "%", "0">>
            /\ k = 5000 =>
                  perc_tweet.val
                    = FullBar(10) \o EmptyBar(10) \o <<" ", "%", "5", "0">>
            /\ k = 10000 =>
                  perc_tweet.val = FullBar(20) \o <<" ", "%", "1", "0", "0">>
            /\ \A i \in 1..Len(pct) : IsDigit(pct[i]) \/ pct[i] = ","
            /\ pct[Len(pct)] # ","
            /\ Cardinality(digits) < Len(pct) => pct[Len(pct)] # "0"
            /\ pct[1] # "0" => Cardinality(digits) <= 4
            /\ k < 10000 => Hundredths(pct) = k
            /\ (k >= 10000 /\ k < 100000) =>
                  /\ Hundredths(pct) - k <= 5
                  /\ k - Hundredths(pct) <= 5
            /\ k >= 100000 =>
                  /\ Hundredths(pct) - k <= 50
                  /\ k - Hundredths(pct) <= 50

C6_Witness == perc_tweet.some /\ ratio.val = 5000

\* The bar is n filled glyphs followed only by empty glyphs.
FilledThenEmpty(bar, n) ==
    \A i \in 1..Len(bar) :
        bar[i] = (IF i <= n THEN FULL_PROGRESS_CHAR ELSE EMPTY_PROGRESS_CHAR)

\* C7 as stated: the bar is floor(ratio*20) filled glyphs then empty ones;
\* it is exactly 20 glyphs for every ratio in [0,1] and longer than 20 for
\* every ratio above 1.0.
C7_AsStated ==
    perc_tweet.some =>
        LET bar == BarOf(perc_tweet.val)
        IN  /\ FilledThenEmpty(bar, ratio.val \div 500)
            /\ ratio.val <= 10000 => Len(bar) = 20
            /\ ratio.val > 10000 => Len(bar) > 20

\* C7 amended: the bar is floor(ratio*20) filled glyphs followed only by
\* empty glyphs, of total length max(20, floor(ratio*20)): exactly 20 glyphs
\* for every ratio below 1.05, and longer than 20, neither padded nor cut,
\* from ratio 1.05 on.
C7_BarLength ==
    perc_tweet.some =>
        LET bar == BarOf(perc_tweet.val)
            n == ratio.val \div 500
        IN  /\ FilledThenEmpty(bar, n)
            /\ Len(bar) = (IF n > 20 THEN n ELSE 20)
            /\ ratio.val < 10500 => Len(bar) = 20
            /\ ratio.val >= 10500 =>
                  Len(bar) > 20 /\ \A i \in 1..Len(bar) :
                                      bar[i] = FULL_PROGRESS_CHAR

C7_Witness ==
    perc_tweet.some /\ ratio.val >= 10500
    /\ Len(BarOf(perc_tweet.val)) > 20

\* ceil(a / b) for b > 0.
CeilDiv(a, b) == -((-a) \div b)

\* The least remainder r with r / TURKEY_POPULATION >= (2j - 1) / 20000:
\* from it on the fraction rounds to j ten-thousandths or more.
LeastRoundingTo(j) ==
    LET half == TURKEY_POPULATION \div 2
    IN  (2 * j - 1) * (half \div 10000)
        + CeilDiv((2 * j - 1) * (half % 10000), 10000)

\* k ten-thousandths is d / TURKEY_POPULATION rounded to 4 decimals.
IsRounded(k, d) ==
    LET j == k - 10000 * (d \div TURKEY_POPULATION)
        r == d % TURKEY_POPULATION
    IN  /\ j \in 0..10000
        /\ LeastRoundingTo(j) <= r
        /\ r < LeastRoundingTo(j + 1)

\* C8 as stated: for d up to the population the ratio is d/83614362 rounded
\* to 4 decimals and lies in [0,1]; for d above it the ratio exceeds 1.0
\* without an error.
C8_AsStated ==
    ratio.some =>
        LET d == int(second_dose.val)
        IN  /\ d <= TURKEY_POPULATION =>
                  IsRounded(ratio.val, d) /\ ratio.val \in 0..10000
            /\ d > TURKEY_POPULATION =>
                  raised = "None" /\ ratio.val > 10000

\* C8 amended: for d up to the population the ratio is d/83614362 rounded to
\* 4 decimals and lies in [0,1]; for d above it no error is raised and the
\* ratio is again the rounded quotient, which is exactly 1.0 while d exceeds
\* the population by less than 0.005 % of it (d <= 83,618,542) and exceeds
\* 1.0 from there on.
C8_RatioRounded ==
    ratio.some =>
        LET d == int(second_dose.val)
        IN  /\ IsRounded(ratio.val, d)
            /\ d <= TURKEY_POPULATION => ratio.val \in 0..10000
            /\ d > TURKEY_POPULATION =>
                  /\ raised = "None"
                  /\ ratio.val >= 10000
                  /\ ratio.val > 10000 <=>
                        d - TURKEY_POPULATION > TURKEY_POPULATION \div 20000

C8_Witness ==
    ratio.some /\ int(second_dose.val) > TURKEY_POPULATION
    /\ ratio.val = 10000

====
